---- MODULE Spec2Model ----
(***************************************************************************)
(* A model of code-pick-recent (src/src/main.rs): the three listings       *)
(* recent, workspaces and history, the folder-URI classifier                *)
(* digest_folder_uri and the remote-identifier resolver                     *)
(* extract_folder_name_from_remote_val.                                     *)
(*                                                                         *)
(* A Rust str/String is modelled as what it is: a sequence of UTF-8 bytes   *)
(* (0..255).  Byte-indexed slicing panics off a character boundary and      *)
(* chars().position counts characters, exactly as in the standard library.  *)
(***************************************************************************)
EXTENDS Integers, Sequences, FiniteSets, TLC

\* ------------------------------------------------------------------------
\* Notation: string literals of the source as byte sequences
\* ------------------------------------------------------------------------

\* The printable ASCII characters from code 32 to 95, and from 97 to 126.
AsciiLow ==
  " !\"#$%&'()*+,-./0123456789:;<=>?@ABCDEFGHIJKLMNOPQRSTUVWXYZ[\\]^_"

AsciiHigh ==
  "abcdefghijklmnopqrstuvwxyz{|}~"

\* The code of each one-character printable ASCII string.
Ord ==
  [c \in {SubSeq(AsciiLow, i, i) : i \in 1..Len(AsciiLow)}
           \cup {SubSeq(AsciiHigh, i, i) : i \in 1..Len(AsciiHigh)} |->
     IF \E i \in 1..Len(AsciiLow) : SubSeq(AsciiLow, i, i) = c
     THEN 31 + (CHOOSE i \in 1..Len(AsciiLow) : SubSeq(AsciiLow, i, i) = c)
     ELSE 96 + (CHOOSE i \in 1..Len(AsciiHigh) : SubSeq(AsciiHigh, i, i) = c)]

\* The UTF-8 bytes of a printable-ASCII string literal.
B(str) ==
  [i \in 1..Len(str) |-> Ord[SubSeq(str, i, i)]]

\* The string literals of the source
StrFile == B("file://")
StrVscodeRemote == B("vscode-remote://")
StrDevContainer == B("dev-container")
StrDevContainerLabel == B("Dev Container")
StrSshRemote == B("ssh-remote")
StrSshRemoteLabel == B("SSH Remote")
StrHostPath == B("hostPath")
StrRepositoryPath == B("repositoryPath")
StrVolumeName == B("volumeName")
StrRepository == B("repository")
StrVolume == B("volume")
StrUnknown == B("unknown")
StrSmallOpen == B("<small>")
StrSmallClose == B("</small>")

TAB == 9
NL == 10
NUL == 0

\* ------------------------------------------------------------------------
\* Rust std: str as UTF-8 bytes
\* ------------------------------------------------------------------------

IsContinuation(b) ==
  b >= 128 /\ b <= 191

\* str::is_char_boundary, 0-based byte index
IsCharBoundary(s, i) ==
  \/ i = 0
  \/ i = Len(s)
  \/ i > 0 /\ i < Len(s) /\ ~IsContinuation(s[i + 1])

\* &s[a..b] does not panic
SliceOk(s, a, b) ==
  a <= b /\ b <= Len(s) /\ IsCharBoundary(s, a) /\ IsCharBoundary(s, b)

\* &s[a..b], 0-based half-open byte range
Slice(s, a, b) ==
  SubSeq(s, a + 1, b)

\* str::starts_with
StartsWith(s, p) ==
  Len(s) >= Len(p) /\ SubSeq(s, 1, Len(p)) = p

\* str::replace(<one ASCII character>, "")
RemoveByte(s, b) ==
  SelectSeq(s, LAMBDA c : c # b)

\* The concatenation of the sequences ss[lo], ..., ss[hi], by halves
RECURSIVE FlattenRange(_, _, _)
FlattenRange(ss, lo, hi) ==
  IF lo > hi THEN <<>>
  ELSE IF lo = hi THEN ss[lo]
  ELSE LET mid == (lo + hi) \div 2
       IN  FlattenRange(ss, lo, mid) \o FlattenRange(ss, mid + 1, hi)

Flatten(ss) ==
  FlattenRange(ss, 1, Len(ss))

\* s.chars().position(|c| c == ch) for an ASCII ch: the number of characters
\* before the first ch, or -1 for None
CharsPosition(s, ch) ==
  IF \A k \in 1..Len(s) : s[k] # ch THEN -1
  ELSE LET k == CHOOSE k \in 1..Len(s) : s[k] = ch /\ \A j \in 1..(k - 1) : s[j] # ch
       IN  Cardinality({j \in 1..(k - 1) : ~IsContinuation(s[j])})

\* The length of the character a leading byte starts, 0 for a byte that
\* starts none
Utf8Width(b) ==
  IF b < 128 THEN 1
  ELSE IF b >= 194 /\ b <= 223 THEN 2
  ELSE IF b >= 224 /\ b <= 239 THEN 3
  ELSE IF b >= 240 /\ b <= 244 THEN 4
  ELSE 0

\* The second byte of a character in the range its leading byte allows
\* (no overlong forms, no surrogates, nothing above U+10FFFF)
SecondByteOk(lead, b) ==
  IF lead = 224 THEN b >= 160 /\ b <= 191
  ELSE IF lead = 237 THEN b >= 128 /\ b <= 159
  ELSE IF lead = 240 THEN b >= 144 /\ b <= 191
  ELSE IF lead = 244 THEN b >= 128 /\ b <= 143
  ELSE IsContinuation(b)

\* String::from_utf8 succeeds: every byte that is no continuation byte
\* starts a character that is followed by exactly its continuation bytes
ValidUtf8(s) ==
  LET n == Len(s)
  IN  /\ n > 0 => ~IsContinuation(s[1])
      /\ \A i \in 1..n :
           IsContinuation(s[i]) \/
             LET w == Utf8Width(s[i])
             IN  /\ w > 0
                 /\ i + w - 1 <= n
                 /\ \A k \in (i + 1)..(i + w - 1) : IsContinuation(s[k])
                 /\ w > 1 => SecondByteOk(s[i], s[i + 1])
                 /\ i + w <= n => ~IsContinuation(s[i + w])

\* char::to_digit(16) of a byte: 0..15, or -1 for None
HexDigit(b) ==
  IF b >= 48 /\ b <= 57 THEN b - 48
  ELSE IF b >= 97 /\ b <= 102 THEN b - 87
  ELSE IF b >= 65 /\ b <= 70 THEN b - 55
  ELSE -1

\* str::trim: the characters with the White_Space property that are one or
\* two bytes long (U+0009..U+000D, U+0020, U+0085, U+00A0)
IsAsciiSpace(b) ==
  (b >= 9 /\ b <= 13) \/ b = 32

RECURSIVE TrimStart(_)
TrimStart(s) ==
  IF s = <<>> THEN s
  ELSE IF IsAsciiSpace(s[1]) THEN TrimStart(Tail(s))
  ELSE IF Len(s) >= 2 /\ s[1] = 194 /\ s[2] \in {133, 160} THEN TrimStart(Tail(Tail(s)))
  ELSE s

RECURSIVE TrimEnd(_)
TrimEnd(s) ==
  LET n == Len(s)
  IN  IF n = 0 THEN s
      ELSE IF IsAsciiSpace(s[n]) THEN TrimEnd(SubSeq(s, 1, n - 1))
      ELSE IF n >= 2 /\ s[n - 1] = 194 /\ s[n] \in {133, 160} THEN TrimEnd(SubSeq(s, 1, n - 2))
      ELSE s

Trim(s) ==
  TrimEnd(TrimStart(s))


\* u8::from_str_radix(src, 16): the value, or -1 for Err.  A leading '+' is
\* a sign; '-' is no sign of an unsigned type and so an invalid digit.
FromStrRadix16(src) ==
  LET digits == IF Len(src) > 1 /\ src[1] = 43 THEN Tail(src) ELSE src
  IN  IF src = <<>> \/ src = <<43>> \/ src = <<45>> THEN -1
      ELSE IF \E k \in 1..Len(digits) : HexDigit(digits[k]) = -1 THEN -1
      ELSE IF Len(digits) = 1 THEN HexDigit(digits[1])
      ELSE IF Len(digits) = 2 THEN 16 * HexDigit(digits[1]) + HexDigit(digits[2])
      ELSE -1

\* (u as char) pushed onto a String: the UTF-8 bytes of U+0000..U+00FF
CharFromU8(u) ==
  IF u < 128 THEN <<u>> ELSE <<192 + (u \div 64), 128 + (u % 64)>>

\* ------------------------------------------------------------------------
\* urlencoding::decode
\* ------------------------------------------------------------------------

\* Position i of d starts an escape: a '%' and two hex digits.  Every '%'
\* is examined (hex digits, the only bytes an escape consumes, are no '%').
IsEscape(d, i) ==
  /\ i >= 1 /\ i + 2 <= Len(d)
  /\ d[i] = 37
  /\ HexDigit(d[i + 1]) # -1
  /\ HexDigit(d[i + 2]) # -1

\* decode_binary: %XX becomes a byte; a '%' not followed by two hex digits
\* is kept as it is
DecodeBinary(d) ==
  Flatten([i \in 1..Len(d) |->
             IF IsEscape(d, i) THEN <<16 * HexDigit(d[i + 1]) + HexDigit(d[i + 2])>>
             ELSE IF IsEscape(d, i - 1) \/ IsEscape(d, i - 2) THEN <<>>
             ELSE <<d[i]>>])

\* The result of decode on a text with a '%'
UrlDecoded(bytes) ==
  [ok |-> ValidUtf8(bytes), v |-> bytes]

\* decode: a text without '%' is returned as it is; otherwise
\* Err(FromUtf8Error) when the decoded bytes are not UTF-8
UrlDecode(data) ==
  IF \A i \in 1..Len(data) : data[i] # 37 THEN [ok |-> TRUE, v |-> data]
  ELSE UrlDecoded(DecodeBinary(data))

\* ------------------------------------------------------------------------
\* sonic_rs::from_str on the texts the remote payloads decode to
\* ------------------------------------------------------------------------

\* JSON values: a string, or a value of another type
JsonString(s) == [t |-> "str", s |-> s]
JsonNumber == [t |-> "num", s |-> <<>>]
JsonArray == [t |-> "arr", s |-> <<>>]

\* A JSON object: its keys and, at the same positions, their values
JsonObject(keys, vals) == [t |-> "obj", keys |-> keys, vals |-> vals]

\* The JSON texts of the model
TextHostPath == B("{\"hostPath\":\"/home/x\"}")
TextProbeOrder == B("{\"hostPath\":1,\"volumeName\":\"v\",\"repositoryPath\":\"r\"}")
TextNoKnownKey == B("{\"path\":\"/p\"}")

\* sonic_rs::from_str::<Value>: Ok(value) for the JSON texts of the model;
\* no other text the model decodes a payload to is JSON
JsonFromStr(v) ==
  IF v = TextHostPath
  THEN [ok |-> TRUE, v |-> JsonObject(<<StrHostPath>>, <<JsonString(B("/home/x"))>>)]
  ELSE IF v = TextProbeOrder
  THEN [ok |-> TRUE,
        v |-> JsonObject(<<StrHostPath, StrVolumeName, StrRepositoryPath>>,
                         <<JsonNumber, JsonString(B("v")), JsonString(B("r"))>>)]
  ELSE IF v = TextNoKnownKey
  THEN [ok |-> TRUE, v |-> JsonObject(<<B("path")>>, <<JsonString(B("/p"))>>)]
  ELSE [ok |-> FALSE, v |-> JsonArray]

\* Object::get: the value of a key (the keys of the payloads are distinct)
ObjGet(obj, key) ==
  IF \E k \in 1..Len(obj.keys) : obj.keys[k] = key
  THEN [found |-> TRUE, v |-> obj.vals[CHOOSE k \in 1..Len(obj.keys) : obj.keys[k] = key]]
  ELSE [found |-> FALSE, v |-> JsonArray]

\* ------------------------------------------------------------------------
\* The remote-identifier resolver
\* ------------------------------------------------------------------------

get_display_string_from_remote_type(remote_type) ==
  IF remote_type = StrDevContainer THEN StrDevContainerLabel
  ELSE IF remote_type = StrSshRemote THEN StrSshRemoteLabel
  ELSE remote_type

\* hint_addition_from_path: the qualifier as text, <<>> for None
hint_addition_from_path(path) ==
  IF path = StrHostPath THEN <<>>
  ELSE IF path = StrRepositoryPath THEN StrRepository
  ELSE IF path = StrVolumeName THEN StrVolume
  ELSE StrUnknown

\* The keys in the order the loop probes them
ProbedPaths == <<StrHostPath, StrRepositoryPath, StrVolumeName>>

\* A mutant: the keys probed in the order volumeName, repositoryPath, hostPath
ProbedPathsReversed == <<StrVolumeName, StrRepositoryPath, StrHostPath>>

\* The for loop of hint_addition_from_json_slice from the k-th path on
RECURSIVE ProbeFrom(_, _, _)
ProbeFrom(obj, paths, k) ==
  IF k > Len(paths) THEN [some |-> FALSE, val |-> <<>>, addition |-> <<>>]
  ELSE LET s == ObjGet(obj, paths[k])
       IN  IF ~s.found THEN ProbeFrom(obj, paths, k + 1)
           ELSE IF s.v.t # "str" THEN ProbeFrom(obj, paths, k + 1)
           ELSE [some |-> TRUE, val |-> s.v.s,
                 addition |-> hint_addition_from_path(paths[k])]

\* A mutant of hint_addition_from_json_slice: the reversed probe order
hint_addition_from_json_slice_Reversed(v) ==
  LET val == JsonFromStr(v)
  IN  IF ~val.ok \/ val.v.t # "obj" THEN [some |-> FALSE, val |-> <<>>, addition |-> <<>>]
      ELSE ProbeFrom(val.v, ProbedPathsReversed, 1)

hint_addition_from_json_slice(v) ==
  LET val == JsonFromStr(v)
  IN  IF ~val.ok \/ val.v.t # "obj" THEN [some |-> FALSE, val |-> <<>>, addition |-> <<>>]
      ELSE ProbeFrom(val.v, ProbedPaths, 1)

\* The hex decoding of rest[hex_start..hex_end], two bytes at a time:
\* (hex_start..hex_end).step_by(2) visits the byte offsets at(k), and
\* collect::<Result<String, _>> stops at the first Err.  A slice
\* rest[i..i + 2] off a character boundary panics.
HexDecode(rest, hex_start, hex_end) ==
  LET m == (hex_end - hex_start + 1) \div 2
      at(k) == hex_start + 2 * (k - 1)
      bad(k) == ~SliceOk(rest, at(k), at(k) + 2)
                  \/ FromStrRadix16(Slice(rest, at(k), at(k) + 2)) = -1
      first == CHOOSE k \in 1..m : bad(k) /\ \A j \in 1..(k - 1) : ~bad(j)
  IN  IF \A k \in 1..m : ~bad(k)
      THEN [res |-> "ok",
            v |-> Flatten([k \in 1..m |->
                             CharFromU8(FromStrRadix16(Slice(rest, at(k), at(k) + 2)))])]
      ELSE IF ~SliceOk(rest, at(first), at(first) + 2) THEN [res |-> "panic", v |-> <<>>]
      ELSE [res |-> "err", v |-> <<>>]

\* What the resolver does: Err(msg), a panic, or Ok(DisplayInfo { val, hint:
\* Some(DisplayInfoHint { remote_type, addition }) }); v is the local v, the
\* text the payload was decoded to (None when the decoding failed)
DisplayInfoErr(msg) ==
  [res |-> "err", msg |-> msg, val |-> <<>>, remote_type |-> <<>>, addition |-> <<>>,
   v |-> <<>>]

DisplayInfoPanic ==
  [res |-> "panic", msg |-> "", val |-> <<>>, remote_type |-> <<>>, addition |-> <<>>,
   v |-> <<>>]

DisplayInfo(val, remote_type, addition, v) ==
  [res |-> "ok", msg |-> "", val |-> val, remote_type |-> remote_type,
   addition |-> addition, v |-> v]

\* extract_folder_name_from_remote_val: Ok(DisplayInfo), Err or a panic.
\* remote_type_end and hex_end are character counts used as byte offsets.
extract_folder_name_from_remote_val(rest) ==
  LET remote_type_end == CharsPosition(rest, 43)
      hex_start == remote_type_end + 1
      slash == CharsPosition(Slice(rest, hex_start, Len(rest)), 47)
      hex_end == slash + hex_start
      remote_type == get_display_string_from_remote_type(Slice(rest, 0, remote_type_end))
      hex == HexDecode(rest, hex_start, hex_end)
      hint == hint_addition_from_json_slice(hex.v)
  IN  IF remote_type_end = -1 THEN DisplayInfoErr("No space found!")
      ELSE IF ~SliceOk(rest, hex_start, Len(rest)) THEN DisplayInfoPanic
      ELSE IF slash = -1 THEN DisplayInfoErr("No slash found after first space!")
      ELSE IF ~SliceOk(rest, 0, remote_type_end) THEN DisplayInfoPanic
      ELSE IF hex.res = "panic" THEN DisplayInfoPanic
      ELSE IF hex.res = "err"
           THEN DisplayInfo(Slice(rest, hex_start, Len(rest)), remote_type, <<>>, <<>>)
      ELSE IF hint.some THEN DisplayInfo(hint.val, remote_type, hint.addition, <<hex.v>>)
      ELSE DisplayInfo(hex.v, remote_type, <<>>, <<hex.v>>)

\* print_display_info: what it writes to standard output
print_display_info(info, use_pango_markup) ==
  info.val \o <<32>>
    \o (IF use_pango_markup THEN StrSmallOpen ELSE <<>>)
    \o <<40>> \o info.remote_type
    \o (IF info.addition # <<>> THEN <<124>> \o info.addition ELSE <<>>)
    \o (IF use_pango_markup THEN StrSmallClose ELSE <<>>)
    \o <<41>>

\* ------------------------------------------------------------------------
\* The folder classifier
\* ------------------------------------------------------------------------

\* val.replace("\t", "").replace("\n", "").replace("\0", "")
Sanitize(val) ==
  RemoveByte(RemoveByte(RemoveByte(val, TAB), NL), NUL)

\* The line terminator: an optional NUL, then the newline of println!()
Terminator(null_terminated) ==
  (IF null_terminated THEN <<NUL>> ELSE <<>>) \o <<NL>>

\* The result of one call: res is "ok", "err" or "panic", out what the call
\* printed before it returned (or panicked), diag what it wrote to stderr,
\* info what the resolver did if the call reached it (None otherwise)
Digested(res, out, diag, info) ==
  [res |-> res, out |-> out, diag |-> diag, info |-> info]

\* A mutant of digest_folder_uri: the filters are not consulted
digest_folder_uri_NoFilter(val, null_terminated, use_pango_markup, with_dirs, with_remotes, create_display_strings) ==
  LET dec == UrlDecode(val)
  IN  IF ~dec.ok THEN Digested("err", <<>>, <<>>, <<>>)
      ELSE Digested("ok", Sanitize(dec.v) \o Terminator(null_terminated), <<>>, <<>>)

\* The display branch of a remote folder: the resolver is called on
\* &val[16..] and its result printed behind the raw value
DigestRemote(clean_val, info, use_pango_markup, end) ==
  IF info.res = "panic" THEN Digested("panic", clean_val \o <<TAB>>, <<>>, <<info>>)
  ELSE IF info.res = "err"
  THEN Digested("ok", clean_val \o <<TAB>> \o clean_val \o end,
                <<"Couldn't parse vscode-remote folder-string!", info.msg>>, <<info>>)
  ELSE Digested("ok",
                clean_val \o <<TAB>> \o print_display_info(info, use_pango_markup) \o end,
                <<>>, <<info>>)

\* The call on a text that percent-decodes to val
DigestDecoded(val, null_terminated, use_pango_markup, with_dirs, with_remotes, create_display_strings) ==
  LET starts_with_file == with_dirs /\ StartsWith(val, StrFile)
      starts_with_remote == with_remotes /\ StartsWith(val, StrVscodeRemote)
      clean_val == Sanitize(val)
      end == Terminator(null_terminated)
  IN  IF ~starts_with_file /\ ~starts_with_remote THEN Digested("ok", <<>>, <<>>, <<>>)
      ELSE IF ~create_display_strings THEN Digested("ok", clean_val \o end, <<>>, <<>>)
      ELSE IF starts_with_file
           THEN Digested("ok", clean_val \o <<TAB>> \o Slice(val, 7, Len(val)) \o end,
                         <<>>, <<>>)
      ELSE DigestRemote(clean_val,
                        extract_folder_name_from_remote_val(Slice(val, 16, Len(val))),
                        use_pango_markup, end)

\* digest_folder_uri: Err when the text does not percent-decode
DigestUrlDecoded(dec, null_terminated, use_pango_markup, with_dirs, with_remotes, create_display_strings) ==
  IF ~dec.ok THEN Digested("err", <<>>, <<>>, <<>>)
  ELSE DigestDecoded(dec.v, null_terminated, use_pango_markup, with_dirs, with_remotes,
                     create_display_strings)

digest_folder_uri(val, null_terminated, use_pango_markup, with_dirs, with_remotes, create_display_strings) ==
  DigestUrlDecoded(UrlDecode(val), null_terminated, use_pango_markup, with_dirs,
                   with_remotes, create_display_strings)

\* ------------------------------------------------------------------------
\* The sidecar files workspace.json and entries.json
\* ------------------------------------------------------------------------

\* Option<T>: <<>> is None, <<v>> is Some(v)
IsSome(o) == o # <<>>

\* A field of the sidecar's JSON object: missing, a value that is no
\* string, or a string
FieldMissing == [t |-> "missing", s |-> <<>>]
FieldNonString == [t |-> "nonstr", s |-> <<>>]
FieldString(s) == [t |-> "str", s |-> s]

\* What is found at the sidecar's path: nothing ("absent"), a file that
\* cannot be opened or read ("ioerror"), bytes that are no JSON
\* ("unparsable"), a JSON value that is no object ("notobject"), or an
\* object with its fields "folder" and "resource"
Sidecar(kind, folder, resource) ==
  [kind |-> kind, folder |-> folder, resource |-> resource]

SidecarAbsent == Sidecar("absent", FieldMissing, FieldMissing)
SidecarIoError == Sidecar("ioerror", FieldMissing, FieldMissing)
SidecarUnparsable == Sidecar("unparsable", FieldMissing, FieldMissing)
SidecarNotObject == Sidecar("notobject", FieldMissing, FieldMissing)
SidecarObject(folder, resource) == Sidecar("object", folder, resource)

\* The body the two digest_*_dir_entry functions share, on the field each
\* of them reads
DigestSidecarField(file, field, null_terminated, use_pango_markup, with_dirs, with_remotes, create_display_strings) ==
  IF file.kind = "absent" THEN Digested("ok", <<>>, <<>>, <<>>)
  ELSE IF file.kind \in {"ioerror", "unparsable"} THEN Digested("err", <<>>, <<>>, <<>>)
  ELSE IF file.kind = "notobject" \/ field.t = "missing" THEN Digested("ok", <<>>, <<>>, <<>>)
  ELSE IF field.t = "nonstr" THEN Digested("err", <<>>, <<>>, <<>>)
  ELSE digest_folder_uri(field.s, null_terminated, use_pango_markup, with_dirs,
                         with_remotes, create_display_strings)

digest_workspaces_dir_entry(file, with_dirs, with_remotes, null_terminated, create_display_strings, use_pango_markup) ==
  DigestSidecarField(file, file.folder, null_terminated, use_pango_markup, with_dirs,
                     with_remotes, create_display_strings)

digest_history_dir_entry(file, null_terminated, with_dirs, with_remotes, create_display_strings, use_pango_markup) ==
  DigestSidecarField(file, file.resource, null_terminated, use_pango_markup, with_dirs,
                     with_remotes, create_display_strings)

\* ------------------------------------------------------------------------
\* The age cutoff and the recency sort
\* ------------------------------------------------------------------------

NUM_SECONDS_IN_DAY == 86400

\* The earliest SystemTime the platform represents, in seconds: checked_sub
\* is None below it
EarliestSystemTime == 0

\* get_min_system_time_from_max_age_days: Ok(cutoff) or Err
get_min_system_time_from_max_age_days(now, max_age_days) ==
  LET res == now - max_age_days * NUM_SECONDS_IN_DAY
  IN  [ok |-> res >= EarliestSystemTime, t |-> res]

\* A mutant of the age filter: an entry exactly at the cutoff is dropped
TooOldOrAtCutoff(last_modified_at, min_system_time) ==
  IsSome(min_system_time) /\ last_modified_at <= min_system_time[1]

\* The filter of the closure: entry.last_modified_at < min_system_time
TooOld(last_modified_at, min_system_time) ==
  IsSome(min_system_time) /\ last_modified_at < min_system_time[1]

\* A mutant of the comparator: ascending
ComesBeforeAscending(e1, e2) ==
  e1.last_modified_at < e2.last_modified_at

\* e1.last_modified_at.cmp(&e2.last_modified_at).reverse() is Less: e1 is
\* sorted strictly before e2
ComesBefore(e1, e2) ==
  e1.last_modified_at > e2.last_modified_at

\* Vec::sort_by, a stable sort: the element at position i goes behind the
\* elements that come before it and behind the earlier elements it does not
\* come before
sort_by(v) ==
  LET rank(i) == 1 + Cardinality({j \in 1..Len(v) :
                                    \/ ComesBefore(v[j], v[i])
                                    \/ j < i /\ ~ComesBefore(v[i], v[j])})
  IN  [r \in 1..Len(v) |-> v[CHOOSE i \in 1..Len(v) : rank(i) = r]]

\* ------------------------------------------------------------------------
\* The recent menu of storage.json
\* ------------------------------------------------------------------------

\* An item of the Recent submenu: its "id" (None when missing or no
\* string), its "enabled" (None when missing or no boolean) and its
\* "uri"."path" (None when missing or no string)
MenuItem(id, enabled, path) ==
  [id |-> id, enabled |-> enabled, path |-> path]

\* RecentEntry { t, val }, with the item's position in the submenu
RecentEntry(t, val, item) ==
  [t |-> t, val |-> val, item |-> item]

\* A mutant of the closure: the enabled flag is not consulted
RecentFilterIgnoringEnabled(items, k, with_files, with_dirs) ==
  LET item == items[k]
  IN  IF item.id \in {<<"openRecentFile">>, <<"openRecentFolder">>} /\ IsSome(item.path)
      THEN <<RecentEntry(IF item.id[1] = "openRecentFile" THEN "File" ELSE "Dir",
                         item.path[1], k)>>
      ELSE <<>>

\* The filter_map closure on the k-th item: Some(RecentEntry) or None
RecentFilter(items, k, with_files, with_dirs) ==
  LET item == items[k]
      keep_id == \/ with_files /\ item.id = <<"openRecentFile">>
                 \/ with_dirs /\ item.id = <<"openRecentFolder">>
  IN  IF ~IsSome(item.id) THEN <<>>
      ELSE IF ~keep_id THEN <<>>
      ELSE IF ~IsSome(item.enabled) THEN <<>>
      ELSE IF ~item.enabled[1] THEN <<>>
      ELSE IF ~IsSome(item.path) THEN <<>>
      ELSE <<RecentEntry(IF item.id[1] = "openRecentFile" THEN "File" ELSE "Dir",
                         item.path[1], k)>>

\* The iterator uris before the ordering is applied
RecentUris(items, with_files, with_dirs) ==
  Flatten([k \in 1..Len(items) |-> RecentFilter(items, k, with_files, with_dirs)])

\* The predicate of partition: want_file xnor is_file
InFirstPartition(order, e) ==
  ~((order = "FilesFirst") # (e.t = "File"))

\* A mutant of the ordering: the second partition is chained first
RecentOrderedSwapped(uris, order) ==
  IF order = "Unchanged" THEN uris
  ELSE SelectSeq(uris, LAMBDA e : ~InFirstPartition(order, e))
         \o SelectSeq(uris, LAMBDA e : InFirstPartition(order, e))

\* The match on order: uris, or first chained with second
RecentOrdered(uris, order) ==
  IF order = "Unchanged" THEN uris
  ELSE SelectSeq(uris, LAMBDA e : InFirstPartition(order, e))
         \o SelectSeq(uris, LAMBDA e : ~InFirstPartition(order, e))

\* One iteration of the printing loop: what it prints
PrintRecentEntry(e, null_terminated) ==
  LET dec == UrlDecode(e.val)
  IN  IF ~dec.ok THEN Digested("err", <<>>, <<"invalid utf-8 sequence">>, <<>>)
      ELSE Digested("ok", Sanitize(Trim(dec.v)) \o Terminator(null_terminated), <<>>, <<>>)

\* ------------------------------------------------------------------------
\* Bounds and inputs
\* ------------------------------------------------------------------------

\* The most directory entries read_dir yields in the scans
MaxEntries == 3

\* The most directories whose sidecar is digested in the digest runs
MaxDigest == 2

\* The most items of the Recent submenu
MaxItems == 4

\* SystemTime::now(), in seconds
Now == NUM_SECONDS_IN_DAY + 20

\* --max-age-days and --limit
MaxAgeChoices == {<<>>, <<0>>, <<1>>, <<2>>}
LimitChoices == {<<>>, <<1>>, <<2>>}

\* Modification times: before, just before, at and after the cutoff of one day
MTimes ==
  {Now - NUM_SECONDS_IN_DAY - 10, Now - NUM_SECONDS_IN_DAY - 1,
   Now - NUM_SECONDS_IN_DAY, Now - NUM_SECONDS_IN_DAY + 10}

\* What read_dir yields: an Err, an entry that is no directory, a directory
DirEntry(kind, mtime) == [kind |-> kind, mtime |-> mtime]

ScanDirEntries ==
  {DirEntry("ioerror", 0), DirEntry("file", 0)} \cup {DirEntry("dir", t) : t \in MTimes}

DigestDirEntries ==
  {DirEntry("dir", Now)}

\* The folder of the p-th directory of a scan
StrScanFolder == B("file:///d")
ScanUri(p) == StrScanFolder \o <<48 + p>>

ScanSidecars(p) ==
  {SidecarAbsent, SidecarObject(FieldString(ScanUri(p)), FieldString(ScanUri(p)))}

\* The listings under a limit: directories too old, recent and most recent
LimitDirEntries ==
  {DirEntry("dir", t) : t \in {Now - NUM_SECONDS_IN_DAY - 10, Now - 10, Now}}

\* The lower-case hex digits of a text, as the editor writes a payload
HexDigits == B("0123456789abcdef")
HexEncode(text) ==
  Flatten([k \in 1..Len(text) |->
             <<HexDigits[(text[k] \div 16) + 1], HexDigits[(text[k] % 16) + 1]>>])

\* Folder URIs as the sidecars hold them (percent-encoded)
UriLocal == B("file:///a%09b%0Ac%00d")
UriHostPath == B("vscode-remote://ssh-remote+") \o HexEncode(TextHostPath) \o B("/h")
UriProbeOrder == B("vscode-remote://dev-container+") \o HexEncode(TextProbeOrder) \o B("/w")
UriNoKnownKey == B("vscode-remote://wsl+") \o HexEncode(TextNoKnownKey) \o B("/x")
UriPayloadTab == B("vscode-remote://wsl+610962/x")
UriNotHex == B("vscode-remote://ssh-remote+zz/home/x")
UriOddHex == B("vscode-remote://wsl+abc/t")
UriPlusSign == B("vscode-remote://wsl++a/x")
UriNoPlus == B("vscode-remote://ho%09st/path")
UriNoSlash == B("vscode-remote://wsl+6162")
UriNotUtf8 == B("file:///%FF")
UriOtherScheme == B("untitled:Untitled-1")
UriNonAscii == B("vscode-remote://%C3%A9%C3%A9+61/x")
UriPayloadNonAscii == B("vscode-remote://wsl+a%C3%A9/x")

DigestUris ==
  {UriLocal, UriHostPath, UriProbeOrder, UriNoKnownKey, UriPayloadTab, UriNotHex,
   UriOddHex, UriPlusSign, UriNoPlus, UriNoSlash, UriNotUtf8, UriOtherScheme, UriNonAscii,
   UriPayloadNonAscii}

DigestSidecars ==
  {SidecarAbsent, SidecarUnparsable,
   SidecarObject(FieldNonString, FieldNonString),
   SidecarObject(FieldString(UriLocal), FieldMissing),
   SidecarObject(FieldMissing, FieldString(UriLocal))}
    \cup {SidecarObject(FieldString(u), FieldString(u)) : u \in DigestUris \ {UriLocal}}

\* The sidecars of the listings under a limit: none, one without the field,
\* a scheme that is not listed, a text that does not decode, a local folder,
\* a remote folder whose type is not ASCII
LimitSidecars ==
  {SidecarAbsent, SidecarObject(FieldMissing, FieldMissing)}
    \cup {SidecarObject(FieldString(u), FieldString(u)) :
            u \in {UriOtherScheme, UriNotUtf8, UriLocal, UriNonAscii}}

\* The arguments main hands to the listing (all || with_dirs and so on)
Args(with_files, with_dirs, with_remotes, create_display_strings, max_age_days, limit, order, null_terminated, use_pango_markup) ==
  [with_files |-> with_files, with_dirs |-> with_dirs, with_remotes |-> with_remotes,
   create_display_strings |-> create_display_strings, max_age_days |-> max_age_days,
   limit |-> limit, order |-> order, null_terminated |-> null_terminated,
   use_pango_markup |-> use_pango_markup]

\* Items of the Recent submenu
MenuItems ==
  {MenuItem(<<"openRecentFile">>, <<TRUE>>, <<B(" /f%09%0A%00 1.txt ")>>),
   MenuItem(<<"openRecentFile">>, <<FALSE>>, <<B("/off.txt")>>),
   MenuItem(<<"openRecentFolder">>, <<TRUE>>, <<B("/d1")>>),
   MenuItem(<<"openRecentFolder">>, <<TRUE>>, <<B("/bad%FF")>>),
   MenuItem(<<"workbench.action.openRecent">>, <<TRUE>>, <<>>)}

\* The sequences over S of length at most n
SeqsUpTo(S, n) ==
  UNION {[1..k -> S] : k \in 0..n}

\* ------------------------------------------------------------------------
\* State
\* ------------------------------------------------------------------------

VARIABLES
  command,          \* the subcommand: "recent", "workspaces" or "history"
  args,             \* its arguments
  storage,          \* storage.json: [ok, items], ok FALSE when it cannot be read
  pc,               \* "main", "reading", "digesting", "done", "failed", "panicked"
  min_system_time,  \* Option<SystemTime>, the age cutoff
  dir,              \* what read_dir has yielded so far, in its order
  entries,          \* Vec<FolderEntry>: path (the position in dir), last_modified_at
  taken,            \* how many elements the for loop has taken from entries
  stdout,           \* the bytes written to standard output
  stderr,           \* the diagnostics written to standard error
  calls             \* per loop iteration: the entry, what was read, the result

vars ==
  <<command, args, storage, pc, min_system_time, dir, entries, taken, stdout, stderr,
    calls>>

\* The state main starts a listing in
Start(cmd, a, st) ==
  /\ command = cmd
  /\ args = a
  /\ storage = st
  /\ pc = "main"
  /\ min_system_time = <<>>
  /\ dir = <<>>
  /\ entries = <<>>
  /\ taken = 0
  /\ stdout = <<>>
  /\ stderr = <<>>
  /\ calls = <<>>

InitRecent ==
  \E with_files \in BOOLEAN, with_dirs \in BOOLEAN, null_terminated \in BOOLEAN,
     order \in {"Unchanged", "FilesFirst", "DirsFirst"},
     ok \in BOOLEAN, items \in SeqsUpTo(MenuItems, MaxItems) :
    /\ ~ok => items = <<>>
    /\ Start("recent",
             Args(with_files, with_dirs, FALSE, FALSE, <<>>, <<>>, order, null_terminated,
                  FALSE),
             [ok |-> ok, items |-> items])

InitScan ==
  \E cmd \in {"workspaces", "history"}, max_age_days \in MaxAgeChoices,
     limit \in LimitChoices :
    Start(cmd, Args(FALSE, TRUE, FALSE, FALSE, max_age_days, limit, "Unchanged", FALSE, FALSE),
          [ok |-> TRUE, items |-> <<>>])

InitDigest ==
  \E cmd \in {"workspaces", "history"}, with_dirs \in BOOLEAN, with_remotes \in BOOLEAN,
     create_display_strings \in BOOLEAN, null_terminated \in BOOLEAN,
     use_pango_markup \in BOOLEAN :
    /\ use_pango_markup => create_display_strings   \* the markup shows in display strings only
    /\ Start(cmd,
             Args(FALSE, with_dirs, with_remotes, create_display_strings, <<>>, <<>>,
                  "Unchanged", null_terminated, use_pango_markup),
             [ok |-> TRUE, items |-> <<>>])

InitLimit ==
  \E cmd \in {"workspaces", "history"}, max_age_days \in {<<>>, <<1>>},
     limit \in LimitChoices, create_display_strings \in BOOLEAN :
    Start(cmd,
          Args(FALSE, TRUE, TRUE, create_display_strings, max_age_days, limit, "Unchanged",
               FALSE, FALSE),
          [ok |-> TRUE, items |-> <<>>])

\* ------------------------------------------------------------------------
\* recent: collect_items_in_menu_settings
\* ------------------------------------------------------------------------

\* The printing loop over uris, printed[k] being what its k-th iteration
\* prints and logs
PrintRecentEntries(uris, printed) ==
  /\ stdout' = stdout \o Flatten([k \in 1..Len(uris) |-> printed[k].out])
  /\ stderr' = stderr \o Flatten([k \in 1..Len(uris) |-> printed[k].diag])
  /\ calls' = [k \in 1..Len(uris) |->
                 [entry |-> uris[k].item, res |-> printed[k].res, out |-> printed[k].out]]

\* The kept items in their order are printed one by one; Ok(())
ListRecent(uris) ==
  /\ PrintRecentEntries(uris, [k \in 1..Len(uris) |->
                                 PrintRecentEntry(uris[k], args.null_terminated)])
  /\ pc' = "done"

\* The whole listing: a storage.json that cannot be opened or parsed, or
\* that lacks the menu structure, is an Err of main; otherwise the kept
\* items are ordered and printed
CollectMenu ==
  /\ pc = "main"
  /\ command = "recent"
  /\ IF ~storage.ok
     THEN /\ pc' = "failed"
          /\ stderr' = Append(stderr, "Error")
          /\ UNCHANGED <<stdout, calls>>
     ELSE ListRecent(RecentOrdered(RecentUris(storage.items, args.with_files, args.with_dirs),
                                   args.order))
  /\ UNCHANGED <<command, args, storage, min_system_time, dir, entries, taken>>

\* ------------------------------------------------------------------------
\* workspaces and history: collect_items_in_workspaces, collect_items_in_history
\* ------------------------------------------------------------------------

\* The cutoff is computed and the directory opened; either may fail, and
\* that is an Err of main
OpenDir(opened) ==
  /\ pc = "main"
  /\ command \in {"workspaces", "history"}
  /\ LET cutoff == get_min_system_time_from_max_age_days(Now, args.max_age_days[1])
     IN  IF IsSome(args.max_age_days) /\ ~cutoff.ok
         THEN /\ pc' = "failed"
              /\ stderr' = Append(stderr, "Error: max-age-days too big")
              /\ UNCHANGED min_system_time
         ELSE IF ~opened
         THEN /\ pc' = "failed"
              /\ stderr' = Append(stderr, "Error")
              /\ UNCHANGED min_system_time
         ELSE /\ pc' = "reading"
              /\ min_system_time' = IF IsSome(args.max_age_days) THEN <<cutoff.t>> ELSE <<>>
              /\ UNCHANGED stderr
  /\ UNCHANGED <<command, args, storage, dir, entries, taken, stdout, calls>>

\* get_data_from_dir_entry: Ok only for a directory whose metadata is read
get_data_from_dir_entry(entry, path) ==
  IF entry.kind = "dir"
  THEN [ok |-> TRUE, v |-> [path |-> path, last_modified_at |-> entry.mtime]]
  ELSE [ok |-> FALSE, v |-> [path |-> path, last_modified_at |-> 0]]

\* One step of the filter_map over read_dir: the next entry is read, an Err
\* is logged and dropped, an entry older than the cutoff is dropped
ReadDirEntry(entry, bound) ==
  /\ pc = "reading"
  /\ Len(dir) < bound
  /\ dir' = Append(dir, entry)
  /\ LET data == get_data_from_dir_entry(entry, Len(dir) + 1)
     IN  IF ~data.ok
         THEN /\ stderr' = stderr \o <<"Error at", "Error reading entry!">>
              /\ UNCHANGED entries
         ELSE IF TooOld(data.v.last_modified_at, min_system_time)
         THEN UNCHANGED <<entries, stderr>>
         ELSE /\ entries' = Append(entries, data.v)
              /\ UNCHANGED stderr
  /\ UNCHANGED <<command, args, storage, pc, min_system_time, taken, stdout, calls>>

\* entries.into_iter().take(limit): how many entries the loop visits
TakeCount(v, limit) ==
  IF IsSome(limit) /\ limit[1] < Len(v) THEN limit[1] ELSE Len(v)

\* read_dir is exhausted: the collected entries are sorted; with nothing to
\* visit the listing returns Ok(())
ReadDirEnd ==
  /\ pc = "reading"
  /\ entries' = sort_by(entries)
  /\ pc' = IF TakeCount(entries, args.limit) = 0 THEN "done" ELSE "digesting"
  /\ UNCHANGED <<command, args, storage, min_system_time, dir, taken, stdout, stderr,
                 calls>>

\* The call of the loop body on the sidecar file
DigestDirEntry(file) ==
  IF command = "workspaces"
  THEN digest_workspaces_dir_entry(file, args.with_dirs, args.with_remotes,
                                   args.null_terminated, args.create_display_strings,
                                   args.use_pango_markup)
  ELSE digest_history_dir_entry(file, args.null_terminated, args.with_dirs,
                                args.with_remotes, args.create_display_strings,
                                args.use_pango_markup)

\* The effect of one iteration whose call returned d on the entry e
Digesting(e, file, d) ==
  /\ taken' = taken + 1
  /\ calls' = Append(calls, [entry |-> e.path, file |-> file, res |-> d.res, out |-> d.out,
                              info |-> d.info])
  /\ stdout' \in (IF d.res = "panic" THEN {stdout, stdout \o d.out} ELSE {stdout \o d.out})
  /\ stderr' = stderr \o d.diag
                 \o (IF d.res = "err" THEN <<"Error with file", "Error digesting entry!">>
                     ELSE IF d.res = "panic" THEN <<"panicked">>
                     ELSE <<>>)
  /\ pc' = IF d.res = "panic" THEN "panicked"
           ELSE IF taken + 1 = TakeCount(entries, args.limit) THEN "done"
           ELSE "digesting"

\* One iteration of the for loop: the sidecar of the next entry is read and
\* digested, an Err is logged; after the last entry the listing returns
\* Ok(()).  A panic ends the process; the unterminated text it had printed
\* reaches standard output or not, as the build unwinds or aborts.
DigestEntry(file) ==
  /\ pc = "digesting"
  /\ taken < TakeCount(entries, args.limit)
  /\ Digesting(entries[taken + 1], file, DigestDirEntry(file))
  /\ UNCHANGED <<command, args, storage, min_system_time, dir, entries>>

\* ------------------------------------------------------------------------
\* Specifications
\* ------------------------------------------------------------------------

NextRecent ==
  CollectMenu

SpecRecent ==
  InitRecent /\ [][NextRecent]_vars

\* The scans: what read_dir yields varies, every directory has its own folder
NextScan ==
  \/ \E opened \in BOOLEAN : OpenDir(opened)
  \/ \E entry \in ScanDirEntries : ReadDirEntry(entry, MaxEntries)
  \/ ReadDirEnd
  \/ \E file \in ScanSidecars(IF pc = "digesting" THEN entries[taken + 1].path ELSE 0) :
       DigestEntry(file)

SpecScan ==
  InitScan /\ [][NextScan]_vars

\* The digest runs: what the sidecars hold varies
NextDigest ==
  \/ \E opened \in BOOLEAN : OpenDir(opened)
  \/ \E entry \in DigestDirEntries : ReadDirEntry(entry, MaxDigest)
  \/ ReadDirEnd
  \/ \E file \in DigestSidecars : DigestEntry(file)

SpecDigest ==
  InitDigest /\ [][NextDigest]_vars

\* The listings under a limit: the ages and the sidecars vary
NextLimit ==
  \/ \E opened \in BOOLEAN : OpenDir(opened)
  \/ \E entry \in LimitDirEntries : ReadDirEntry(entry, MaxEntries)
  \/ ReadDirEnd
  \/ \E file \in LimitSidecars : DigestEntry(file)

SpecLimit ==
  InitLimit /\ [][NextLimit]_vars

\* ------------------------------------------------------------------------
\* Properties
\* ------------------------------------------------------------------------

\* How often the byte b occurs in s
CountByte(s, b) ==
  Cardinality({i \in 1..Len(s) : s[i] = b})

\* The first position of the byte ch in s, 0 when there is none
IndexOf(s, ch) ==
  IF \A i \in 1..Len(s) : s[i] # ch THEN 0
  ELSE CHOOSE i \in 1..Len(s) : s[i] = ch /\ \A j \in 1..(i - 1) : s[j] # ch

\* The folder URI a call of the loop found in the sidecar (None when the
\* sidecar holds none for the listing)
FolderUri(call) ==
  LET field == IF command = "workspaces" THEN call.file.folder ELSE call.file.resource
  IN  IF call.file.kind = "object" /\ field.t = "str" THEN <<field.s>> ELSE <<>>

\* The filter that owns the decoded URI val is enabled
OwningFilterEnabled(val) ==
  \/ args.with_dirs /\ StartsWith(val, StrFile)
  \/ args.with_remotes /\ StartsWith(val, StrVscodeRemote)

\* The remote identifier of a decoded remote URI, and its parts: the remote
\* type before the first '+', the payload between that '+' and the first
\* '/' behind it
RemoteIdentifier(val) ==
  SubSeq(val, Len(StrVscodeRemote) + 1, Len(val))

HasTypeSeparator(rest) ==
  IndexOf(rest, 43) > 0

AfterTypeSeparator(rest) ==
  SubSeq(rest, IndexOf(rest, 43) + 1, Len(rest))

HasPayloadEnd(rest) ==
  HasTypeSeparator(rest) /\ IndexOf(AfterTypeSeparator(rest), 47) > 0

RemoteTypeOf(rest) ==
  SubSeq(rest, 1, IndexOf(rest, 43) - 1)

PayloadOf(rest) ==
  SubSeq(AfterTypeSeparator(rest), 1, IndexOf(AfterTypeSeparator(rest), 47) - 1)

\* The payload is hex: an even number of hex digits
IsHexPayload(payload) ==
  /\ Len(payload) % 2 = 0
  /\ \A i \in 1..Len(payload) : HexDigit(payload[i]) # -1

\* C1: in every line a listing prints, the fields hold no tab, newline or
\* NUL: the only tab of a line is the separator of the display mode, its
\* only newline and NUL are the terminators.
C1_FieldsAreSanitized ==
  \A k \in 1..Len(calls) :
    calls[k].res = "ok" /\ calls[k].out # <<>> =>
      /\ CountByte(calls[k].out, TAB) = (IF args.create_display_strings THEN 1 ELSE 0)
      /\ CountByte(calls[k].out, NL) = 1
      /\ CountByte(calls[k].out, NUL) = (IF args.null_terminated THEN 1 ELSE 0)

\* A local folder whose path holds a tab, a newline and a NUL was printed in
\* display mode with all three in its display field
C1_RawPathPrinted ==
  \E k \in 1..Len(calls) :
    /\ FolderUri(calls[k]) = <<UriLocal>>
    /\ calls[k].res = "ok"
    /\ CountByte(calls[k].out, TAB) = 2
    /\ CountByte(calls[k].out, NL) = 2
    /\ CountByte(calls[k].out, NUL) >= 1

\* The sidecar of a call is a good entry: it holds a folder URI that
\* decodes and whose owning filter is enabled
GoodEntry(call) ==
  /\ FolderUri(call) # <<>>
  /\ UrlDecode(FolderUri(call)[1]).ok
  /\ OwningFilterEnabled(UrlDecode(FolderUri(call)[1]).v)

\* C2: a bad entry never aborts the workspaces or history listing: only the
\* directory that cannot be opened and the cutoff that cannot be computed
\* end it early; otherwise every entry within the limit is visited in
\* order, every good one is rendered, and the listing returns success.
C2_BadEntriesNeverAbort ==
  /\ pc # "panicked"
  /\ pc = "failed" => dir = <<>> /\ calls = <<>>
  /\ pc = "done" => taken = TakeCount(entries, args.limit)
  /\ \A k \in 1..Len(calls) :
       /\ calls[k].entry = entries[k].path
       /\ GoodEntry(calls[k]) => calls[k].res = "ok" /\ calls[k].out # <<>>

\* The listing was ended by an entry whose payload does not hex-decode, with
\* an entry left that was never visited
C2_RunAborted ==
  /\ pc = "panicked"
  /\ FolderUri(calls[Len(calls)]) = <<UriPayloadNonAscii>>
  /\ taken < TakeCount(entries, args.limit)

\* C3: on <remoteType>+<hexPayload>/<tailPath> with a payload that holds a
\* character that is no hex digit, or has odd length, the resolver does not
\* fail: its value is the payload unchanged, without the '/' and the tail
\* path, its label is the remote type as it stands, and it has no qualifier.
C3_NonHexPayloadReturnedUnchanged ==
  \A k \in 1..Len(calls) :
    calls[k].info # <<>> =>
      LET rest == RemoteIdentifier(UrlDecode(FolderUri(calls[k])[1]).v)
      IN  HasPayloadEnd(rest) /\ ~IsHexPayload(PayloadOf(rest)) =>
            /\ calls[k].info[1].res = "ok"
            /\ calls[k].info[1].val = PayloadOf(rest)
            /\ calls[k].info[1].remote_type = RemoteTypeOf(rest)
            /\ calls[k].info[1].addition = <<>>

\* The resolver returned the payload zz with the tail path behind it, under
\* the friendly label
C3_TailPathReturned ==
  \E k \in 1..Len(calls) :
    /\ FolderUri(calls[k]) = <<UriNotHex>>
    /\ calls[k].info # <<>>
    /\ calls[k].info[1].res = "ok"
    /\ calls[k].info[1].val = B("zz/home/x")
    /\ calls[k].info[1].remote_type = StrSshRemoteLabel

\* The object holds a string under the key
HasStringAt(obj, key) ==
  ObjGet(obj, key).found /\ ObjGet(obj, key).v.t = "str"

\* What the probing of the decoded text v is to yield: the value and the
\* qualifier
Probed(v) ==
  LET json == JsonFromStr(v)
  IN  IF ~json.ok \/ json.v.t # "obj" THEN [val |-> v, addition |-> <<>>]
      ELSE IF HasStringAt(json.v, StrHostPath)
      THEN [val |-> ObjGet(json.v, StrHostPath).v.s, addition |-> <<>>]
      ELSE IF HasStringAt(json.v, StrRepositoryPath)
      THEN [val |-> ObjGet(json.v, StrRepositoryPath).v.s, addition |-> StrRepository]
      ELSE IF HasStringAt(json.v, StrVolumeName)
      THEN [val |-> ObjGet(json.v, StrVolumeName).v.s, addition |-> StrVolume]
      ELSE [val |-> v, addition |-> <<>>]

\* C4: when the payload was hex-decoded to a text, the resolver's value and
\* qualifier are those of the first of hostPath, repositoryPath, volumeName
\* that holds a string in the JSON object the text parses to (no qualifier,
\* repository, volume), and the text itself with no qualifier when it is no
\* JSON object or none of the keys holds a string; the payload
\* {"hostPath":"/home/x"} of an ssh-remote yields /home/x, SSH Remote and no
\* qualifier.
C4_ProbeOrder ==
  \A k \in 1..Len(calls) :
    calls[k].info # <<>> =>
      /\ calls[k].info[1].v # <<>> =>
           /\ calls[k].info[1].res = "ok"
           /\ calls[k].info[1].val = Probed(calls[k].info[1].v[1]).val
           /\ calls[k].info[1].addition = Probed(calls[k].info[1].v[1]).addition
      /\ FolderUri(calls[k]) = <<UriHostPath>> =>
           /\ calls[k].info[1].v = <<TextHostPath>>
           /\ calls[k].info[1].val = B("/home/x")
           /\ calls[k].info[1].remote_type = B("SSH Remote")
           /\ calls[k].info[1].addition = <<>>

\* A payload whose hostPath is a number and whose volumeName is written
\* before its repositoryPath was resolved to the repositoryPath
C4_RepositoryPathWon ==
  \E k \in 1..Len(calls) :
    /\ FolderUri(calls[k]) = <<UriProbeOrder>>
    /\ calls[k].info # <<>>
    /\ calls[k].info[1].v = <<TextProbeOrder>>
    /\ calls[k].info[1].val = B("r")
    /\ calls[k].info[1].addition = B("repository")

\* The entries are in descending order of modification time, entries of
\* equal time in the order read_dir yielded them
RecencyOrder(v) ==
  \A i \in 1..Len(v) : \A j \in (i + 1)..Len(v) :
    \/ v[i].last_modified_at > v[j].last_modified_at
    \/ v[i].last_modified_at = v[j].last_modified_at /\ v[i].path < v[j].path

\* C5: the entries that survive the age filter are processed in descending
\* order of their modification time, those of equal time in the order the
\* directory listing produced them; the times 10, 30, 20 are processed as
\* 30, 20, 10.
C5_ProcessedByRecency ==
  pc \in {"digesting", "done"} =>
    /\ RecencyOrder(entries)
    /\ \A k \in 1..Len(calls) : calls[k].entry = entries[k].path

\* Three directories, the second the youngest and the first the oldest,
\* were processed: the second, the third, the first
C5_YoungestFirst ==
  /\ pc = "done"
  /\ Len(dir) = 3
  /\ \A p \in 1..3 : dir[p].kind = "dir"
  /\ dir[1].mtime < dir[3].mtime /\ dir[3].mtime < dir[2].mtime
  /\ Len(calls) = 3
  /\ calls[1].entry = 2 /\ calls[2].entry = 3 /\ calls[3].entry = 1

\* The items of the submenu the listing is to keep: those of a requested
\* kind that are enabled and carry their uri.path
KeptItems ==
  {k \in 1..Len(storage.items) :
     /\ \/ args.with_files /\ storage.items[k].id = <<"openRecentFile">>
        \/ args.with_dirs /\ storage.items[k].id = <<"openRecentFolder">>
     /\ storage.items[k].enabled = <<TRUE>>
     /\ storage.items[k].path # <<>>}

\* The k-th entry the printing loop took is in the first group of the order
InFirstGroup(k) ==
  (args.order = "FilesFirst") = (storage.items[calls[k].entry].id = <<"openRecentFile">>)

\* C6: under FilesFirst and DirsFirst the recent listing takes the kept
\* entries as a stable partition: each exactly once, every entry of the
\* first group before every entry of the other, inside a group in the order
\* of the menu; an entry is in the first group exactly when (the order is
\* FilesFirst) equals (the entry is a file).  Dir, File, Dir, File under
\* FilesFirst are taken as the second, the fourth, the first, the third.
C6_StablePartition ==
  pc = "done" /\ args.order # "Unchanged" =>
    /\ {calls[k].entry : k \in 1..Len(calls)} = KeptItems
    /\ Len(calls) = Cardinality(KeptItems)
    /\ \A i \in 1..Len(calls) : \A j \in (i + 1)..Len(calls) :
         \/ InFirstGroup(i) /\ ~InFirstGroup(j)
         \/ InFirstGroup(i) = InFirstGroup(j) /\ calls[i].entry < calls[j].entry

\* A menu of a folder, a file, a folder, a file, all kept, was listed files
\* first
C6_FilesMovedFirst ==
  /\ pc = "done"
  /\ args.order = "FilesFirst"
  /\ Len(storage.items) = 4
  /\ KeptItems = 1..4
  /\ storage.items[1].id = <<"openRecentFolder">>
  /\ storage.items[2].id = <<"openRecentFile">>
  /\ storage.items[3].id = <<"openRecentFolder">>
  /\ storage.items[4].id = <<"openRecentFile">>
  /\ Len(calls) = 4
  /\ calls[1].entry = 2 /\ calls[2].entry = 4 /\ calls[3].entry = 1 /\ calls[4].entry = 3

\* C7: a remote entry (remotes included, the decoded URI starts with
\* vscode-remote://) whose identifier has no '+', or no '/' behind the '+',
\* is a recoverable failure of the entry: no line is printed for it and the
\* run goes on.
C7_UnparsableRemoteExcluded ==
  \A k \in 1..Len(calls) :
    FolderUri(calls[k]) # <<>> /\ args.with_remotes =>
      LET dec == UrlDecode(FolderUri(calls[k])[1])
      IN  /\ dec.ok
          /\ StartsWith(dec.v, StrVscodeRemote)
          /\ ~HasPayloadEnd(RemoteIdentifier(dec.v))
          => calls[k].res # "panic" /\ calls[k].out = <<>>

\* A remote entry without a '+' was printed, in display mode with its URI
\* as the display value
C7_UnparsableRemotePrinted ==
  \E k \in 1..Len(calls) :
    /\ FolderUri(calls[k]) = <<UriNoPlus>>
    /\ args.with_remotes /\ args.create_display_strings /\ ~args.null_terminated
    /\ calls[k].out = B("vscode-remote://host/path") \o <<TAB>>
                        \o B("vscode-remote://host/path") \o <<NL>>

Survivors ==
  {p \in 1..Len(dir) :
     /\ dir[p].kind = "dir"
     /\ args.max_age_days # <<>> =>
          dir[p].mtime >= Now - args.max_age_days[1] * NUM_SECONDS_IN_DAY}

\* C9: with a maximum age of D days the age filter keeps a directory
\* exactly when its modification time is at least now minus D * 86400
\* seconds, the cutoff included, and drops the older ones before the sort
\* and the limit; with no maximum age it drops none.
C9_AgeFilterInclusive ==
  /\ {entries[k].path : k \in 1..Len(entries)} = Survivors
  /\ Len(entries) = Cardinality(Survivors)
  /\ \A k \in 1..Len(entries) : entries[k].last_modified_at = dir[entries[k].path].mtime

\* With a maximum age of one day a directory modified exactly one day ago
\* was kept and one modified a second earlier was dropped
C9_CutoffKept ==
  /\ args.max_age_days = <<1>>
  /\ pc = "done"
  /\ \E p \in 1..Len(dir), q \in 1..Len(dir) :
       /\ dir[p].kind = "dir" /\ dir[p].mtime = Now - NUM_SECONDS_IN_DAY
       /\ dir[q].kind = "dir" /\ dir[q].mtime = Now - NUM_SECONDS_IN_DAY - 1
       /\ \E k \in 1..Len(calls) : calls[k].entry = p
       /\ \A k \in 1..Len(entries) : entries[k].path # q

\* C10: digest_folder_uri prints a line only for a decoded URI that starts
\* with file:// while the folders are included, or with vscode-remote://
\* while the remotes are included; for a URI whose filter is off, and for
\* one of neither prefix, it returns Ok and prints nothing.
C10_OnlyOwnedSchemesPrinted ==
  \A k \in 1..Len(calls) :
    /\ FolderUri(calls[k]) # <<>>
    /\ UrlDecode(FolderUri(calls[k])[1]).ok
    /\ ~OwningFilterEnabled(UrlDecode(FolderUri(calls[k])[1]).v)
    => calls[k].res = "ok" /\ calls[k].out = <<>>

\* A remote folder was digested with the remotes excluded and the folders
\* included: Ok, and nothing printed
C10_DisabledRemoteSilent ==
  \E k \in 1..Len(calls) :
    /\ FolderUri(calls[k]) = <<UriHostPath>>
    /\ args.with_dirs /\ ~args.with_remotes
    /\ calls[k].res = "ok"
    /\ calls[k].out = <<>>
    /\ stdout = <<>>

\* The positions of the sorted list that a listing with the given limit is
\* to resolve: the first N, all of them with no limit
ToResolve ==
  {k \in 1..Len(entries) : args.limit = <<>> \/ k <= args.limit[1]}

\* C11: in the workspaces and history listings the limit N is applied
\* after the age filter and the recency sort and before the resolution of
\* the entries: the directories resolved are the first N of the sorted
\* survivors, in their order, and no other directory takes the place of one
\* that yields no line; the output has at most N lines; with no limit every
\* surviving directory is resolved once the listing has ended.
C11_LimitBeforeResolution ==
  pc \in {"digesting", "done", "panicked"} =>
    /\ {entries[k].path : k \in 1..Len(entries)} = Survivors
    /\ RecencyOrder(entries)
    /\ \A k \in 1..Len(calls) : k \in ToResolve /\ calls[k].entry = entries[k].path
    /\ args.limit # <<>> => CountByte(stdout, NL) <= args.limit[1]
    /\ (args.limit = <<>> /\ pc # "digesting") => Len(calls) = Len(entries)

\* Under a limit of one, two directories survived, the listing resolved the
\* more recent one and returned, and the output has two lines
C11_TwoLinesUnderLimitOne ==
  /\ args.limit = <<1>>
  /\ pc = "done"
  /\ Len(entries) = 2
  /\ Len(calls) = 1
  /\ CountByte(stdout, NL) = 2

====
